---- MODULE Spec2Model ----
(***************************************************************************)
(* A model of beandregs (src/src/beandregs.py): the image retriever and    *)
(* resizer.  One behaviour is one run of main() on an empty output         *)
(* directory: merge the configuration, open the success log and write its  *)
(* header, then read the image-location file one line at a time and call   *)
(* get_image_and_resize for each Location.  A file left by an earlier      *)
(* Location of the same name is what a file left by an earlier run is to   *)
(* the code: a file that exists at the path when the call begins.          *)
(*                                                                         *)
(* Strings are sequences of tokens: a name is <<"cat">> or                 *)
(* <<"orig-", "cat">>, so that 'orig-' + t is sequence concatenation; a    *)
(* line is a sequence of name tokens, url tokens, "=", "#" and " ".        *)
(***************************************************************************)
EXTENDS Integers, Sequences, FiniteSets, TLC

\* ------------------------------------------------------------------ bounds
\* Lines in one image-location file.
MaxLines == 2
\* Largest width and height of a fetched image.
MaxDim == 2

\* ------------------------------------------------------- program constants
\* _defaults['width'] and _defaults['height'].
DefaultWidth == 300
DefaultHeight == 300

\* ---------------------------------------------------------------- helpers
Max2(a, b) == IF a >= b THEN a ELSE b

Last(s) == s[Len(s)]

\* ------------------------------------------------------------- file system
\* A path is [dir, stem, ext]; a file system maps the existing paths to
\* their content.
OutDir == "beandregs-output"
ResizedDir == "beandregs-output/resized"

Put(fs, p, c) == [q \in DOMAIN fs \cup {p} |-> IF q = p THEN c ELSE fs[q]]

Del(fs, p) == [q \in DOMAIN fs \ {p} |-> fs[q]]

Exists(fs, p) == p \in DOMAIN fs

\* File content.  A raw image is what a server or a local file delivered
\* (sw, sh repeat its size); a thumbnail records the size of the image it
\* was made from; corrupt content is bytes no image codec can decode.
Raw(w, h) == [kind |-> "raw", w |-> w, h |-> h, sw |-> w, sh |-> h]

Corrupt == [kind |-> "corrupt", w |-> 0, h |-> 0, sw |-> 0, sh |-> 0]

ThumbOf(img, sz) ==
    [kind |-> "thumb", w |-> sz[1], h |-> sz[2], sw |-> img.w, sh |-> img.h]

Images == {Raw(w, h) : w \in 1..MaxDim, h \in 1..MaxDim} \cup {Corrupt}

\* ------------------------------------------------- image_locations (parser)
\* The lines an image-location file is made of in this model.
LnCat == <<"cat", " ", "=", " ", "http://h/a", ".png">>

LnOrigCat == <<"orig-", "cat", "=", "/img/b", "=", "1", ".PNG", " ", "#", "=">>

LnComment == <<" ", "#", "cat", "=", "http://h/a", ".png">>

LnNoEq == <<"cat", "#", "=", "http://h/a", ".png">>

Lines == {LnCat, LnOrigCat, LnComment, LnNoEq}

\* Index of the first token of s that is c; Len(s) + 1 when there is none.
RECURSIVE Find(_, _, _)
Find(s, c, i) ==
    IF i > Len(s) THEN i
    ELSE IF s[i] = c THEN i ELSE Find(s, c, i + 1)

\* re.sub(r'#.*$', '', ln): everything from the first "#" on is dropped.
StripComment(ln) == SubSeq(ln, 1, Find(ln, "#", 1) - 1)

\* '' == ln or ln.isspace()
IsBlank(ln) == \A i \in 1..Len(ln) : ln[i] = " "

\* str.strip()
RECURSIVE LStrip(_)
LStrip(s) == IF s # <<>> /\ Head(s) = " " THEN LStrip(Tail(s)) ELSE s

RECURSIVE RStrip(_)
RStrip(s) ==
    IF s # <<>> /\ Last(s) = " " THEN RStrip(SubSeq(s, 1, Len(s) - 1)) ELSE s

Strip(s) == RStrip(LStrip(s))

\* ln.split('=', 1): one field when ln holds no "=", else the text before
\* the first "=" and all the text after it.
SplitEq(ln) ==
    LET i == Find(ln, "=", 1)
    IN  IF i > Len(ln) THEN <<ln>>
        ELSE <<SubSeq(ln, 1, i - 1), SubSeq(ln, i + 1, Len(ln))>>

\* What image_locations does with one line: <<>> when the line is skipped,
\* else the list it yields ([ x.strip() for x in ln.split('=', 1) ]).
Fields(line) ==
    LET ln == StripComment(line)
        parts == SplitEq(ln)
    IN  IF IsBlank(ln) THEN <<>>
        ELSE [i \in 1..Len(parts) |-> Strip(parts[i])]

\* --------------------------------------------------------- artifact paths
ExtTokens == {".png", ".PNG"}

\* str.lower() on an extension.
Lower(t) == IF t = ".PNG" THEN ".png" ELSE t

\* os.path.splitext(url)[1].lower()
UrlExt(url) ==
    IF url # <<>> /\ Last(url) \in ExtTokens THEN Lower(Last(url)) ELSE ""

\* resized = basename + ext, with basename = os.path.join(outdir, name)
ResizedPath(name, url) == [dir |-> OutDir, stem |-> name, ext |-> UrlExt(url)]

\* orig = os.path.join(h, 'orig-' + t + ext)
OrigPath(name, url) ==
    [dir |-> OutDir, stem |-> <<"orig-">> \o name, ext |-> UrlExt(url)]

\* os.path.join(resize_dir, os.path.basename(resized))
CopyPath(name, url, resize_dir) ==
    [dir |-> resize_dir, stem |-> name, ext |-> UrlExt(url)]

\* --------------------------------------------------------------- messages
\* What the logging calls write.  Info carries the Location; the other
\* messages are named after what they report.
Msg(kind) == [kind |-> kind, name |-> <<>>, url |-> <<>>]

Info(name, url) == [kind |-> "info", name |-> name, url |-> url]

\* ------------------------------------------------- get_image_and_resize
\* Faulty variant of ThumbSize: the height is never brought under the
\* maximum.
ThumbSize_WidthOnly(w, h, width, height) ==
    IF w > width THEN <<width, Max2((h * width) \div w, 1)>> ELSE <<w, h>>

\* im.thumbnail((width, height)): the size PIL shrinks the image to,
\*   x, y = im.size
\*   if x > size[0]: y = int(max(y * size[0] / x, 1)); x = int(size[0])
\*   if y > size[1]: x = int(max(x * size[1] / y, 1)); y = int(size[1])
ThumbSize(w, h, width, height) ==
    LET y1 == IF w > width THEN Max2((h * width) \div w, 1) ELSE h
        x1 == IF w > width THEN width ELSE w
        x2 == IF y1 > height THEN Max2((x1 * height) \div y1, 1) ELSE x1
        y2 == IF y1 > height THEN height ELSE y1
    IN  <<x2, y2>>

\* resize_not_needed = w <= width and h <= height
ResizeNotNeeded(img, width, height) == img.w <= width /\ img.h <= height

\* What the world outside the program decides during one call: how the
\* fetch goes ("local": url is an existing local file and is copied;
\* "http_ok": the GET succeeds; "http_bad": the GET returns a non-success
\* status; "raise": the copy or the GET raises), the bytes obtained, and
\* whether the copy into the resize directory works.
Envs == [fetch : {"local", "http_ok", "http_bad", "raise"},
         img : Images,
         copyOk : BOOLEAN]

\* os.path.exists(url) is false for an http url; a path of the local file
\* system exists or not, and requests.get raises on it when it does not.
IsHttp(url) == url # <<>> /\ Head(url) = "http://h/a"

FetchOutcomes(url) ==
    IF IsHttp(url) THEN {"http_ok", "http_bad", "raise"} ELSE {"local", "raise"}

\* Faulty variant of FetchStep: the response body is written before the
\* status is looked at.
FetchStep_WritesBeforeStatus(fs, name, url, e) ==
    LET orig == OrigPath(name, url)
        m0 == IF Exists(fs, orig) THEN <<Msg("clobber_orig")>> ELSE <<>>
    IN  CASE e.fetch = "raise" ->
               [fs |-> fs, msgs |-> m0, ret |-> "raised", done |-> TRUE]
          [] e.fetch = "http_bad" ->
               [fs |-> Put(fs, orig, e.img), msgs |-> m0 \o <<Msg("could_not_get")>>,
                ret |-> "returned", done |-> TRUE]
          [] e.fetch = "local" ->
               [fs |-> Put(fs, orig, e.img), msgs |-> m0 \o <<Msg("copy_local")>>,
                ret |-> "returned", done |-> FALSE]
          [] OTHER ->
               [fs |-> Put(fs, orig, e.img), msgs |-> m0,
                ret |-> "returned", done |-> FALSE]

\* Lines 55-68: the clobber notice, then the fetch into orig.  done is TRUE
\* when the call is over after this step.
FetchStep(fs, name, url, e) ==
    LET orig == OrigPath(name, url)
        m0 == IF Exists(fs, orig) THEN <<Msg("clobber_orig")>> ELSE <<>>
    IN  CASE e.fetch = "raise" ->
               [fs |-> fs, msgs |-> m0, ret |-> "raised", done |-> TRUE]
          [] e.fetch = "http_bad" ->
               [fs |-> fs, msgs |-> m0 \o <<Msg("could_not_get")>>,
                ret |-> "returned", done |-> TRUE]
          [] e.fetch = "local" ->
               [fs |-> Put(fs, orig, e.img), msgs |-> m0 \o <<Msg("copy_local")>>,
                ret |-> "returned", done |-> FALSE]
          [] OTHER ->
               [fs |-> Put(fs, orig, e.img), msgs |-> m0,
                ret |-> "returned", done |-> FALSE]

\* Faulty variant of RenameOrig: orig is copied to resized, not renamed.
RenameOrig_Copies(fs, orig, resized) == Put(fs, resized, fs[orig])

\* Lines 79-83: os.remove(resized) when it exists, then
\* os.rename(orig, resized).
RenameOrig(fs, orig, resized) ==
    Put(Del(Del(fs, resized), orig), resized, fs[orig])

\* Lines 70-83: open orig, then thumbnail-and-save or remove-and-rename.
\* PIL raises on bytes it cannot decode and on a thumbnail size with a
\* component below 1.
ResizeStep(fs, name, url, width, height) ==
    LET orig == OrigPath(name, url)
        resized == ResizedPath(name, url)
        img == fs[orig]
        sz == ThumbSize(img.w, img.h, width, height)
    IN  IF img.kind = "corrupt"
        THEN [fs |-> fs, msgs |-> <<>>, ret |-> "raised", done |-> TRUE]
        ELSE IF ~ResizeNotNeeded(img, width, height)
        THEN IF sz[1] < 1 \/ sz[2] < 1
             THEN [fs |-> fs, msgs |-> <<Msg("resizing")>>,
                   ret |-> "raised", done |-> TRUE]
             ELSE [fs |-> Put(fs, resized, ThumbOf(img, sz)),
                   msgs |-> <<Msg("resizing")>>,
                   ret |-> "returned", done |-> FALSE]
        ELSE [fs |-> RenameOrig(fs, orig, resized),
              msgs |-> (IF Exists(fs, resized)
                        THEN <<Msg("removing_resized")>> ELSE <<>>)
                       \o <<Msg("renaming")>>,
              ret |-> "returned", done |-> FALSE]

\* Lines 85-91: copy resized into resize_dir unless it is already there.
DistributeStep(fs, name, url, resize_dir, e) ==
    LET resized == ResizedPath(name, url)
        target == CopyPath(name, url, resize_dir)
    IN  IF target = resized
        THEN [fs |-> fs, msgs |-> <<>>, ret |-> "returned", done |-> TRUE]
        ELSE IF e.copyOk
        THEN [fs |-> Put(fs, target, fs[resized]), msgs |-> <<Msg("copied")>>,
              ret |-> "returned", done |-> TRUE]
        ELSE [fs |-> fs, msgs |-> <<>>, ret |-> "raised", done |-> TRUE]

\* The whole call: the file system it leaves, the messages it logs and how
\* it ends ("returned" or "raised").
GetImageAndResize(fs, name, url, width, height, resize_dir, e) ==
    LET a == FetchStep(fs, name, url, e)
    IN  IF a.done THEN a
        ELSE LET b == ResizeStep(a.fs, name, url, width, height)
             IN  IF b.done
                 THEN [b EXCEPT !.msgs = a.msgs \o b.msgs]
                 ELSE LET c == DistributeStep(b.fs, name, url, resize_dir, e)
                      IN  [c EXCEPT !.msgs = a.msgs \o b.msgs \o c.msgs]

\* ------------------------------------------------ configuration (main)
\* Python values of the width and height settings: None, an int (argparse,
\* type = int; the defaults) or a str of digits (a configparser value).
PyNone == [t |-> "none", v |-> 0]

PyInt(n) == [t |-> "int", v |-> n]

PyStr(n) == [t |-> "str", v |-> n]

\* Python truth of such a value: PyNone and 0 are false, a non-empty str true.
Truthy(x) == x.t = "str" \/ (x.t = "int" /\ x.v # 0)

\* a or b
Or(a, b) == IF Truthy(a) THEN a ELSE b

\* int(x) of an int or of a str of digits
ToInt(x) == x.v

\* load_config: the defaults, overridden by the keys the file's section
\* holds.  file is PyNone (no -c option) or [width, height], a key the
\* section lacks being PyNone.
LoadConfig(file) ==
    [width |-> IF file.t = "file" /\ file.width # PyNone
               THEN file.width ELSE PyInt(DefaultWidth),
     height |-> IF file.t = "file" /\ file.height # PyNone
                THEN file.height ELSE PyInt(DefaultHeight)]

\* Lines 184-188: the command line takes precedence over the config file.
MergeWidth(args, loaded) == ToInt(Or(args.width, loaded.width))

MergeHeight(args, loaded) == ToInt(Or(args.height, loaded.height))

NoCfgFile == [t |-> "nofile", width |-> PyNone, height |-> PyNone]

CfgFile(w, h) == [t |-> "file", width |-> w, height |-> h]

\* The command lines and config files of this model.
Args(w, h, r) == [width |-> w, height |-> h, resize_dir |-> r]

ArgsSet == {Args(PyNone, PyNone, ResizedDir),
            Args(PyInt(0), PyNone, ResizedDir),
            Args(PyInt(1), PyInt(1), ResizedDir),
            Args(PyInt(1), PyInt(1), OutDir)}

CfgFiles == {NoCfgFile, CfgFile(PyStr(0), PyNone)}

\* Every image-location file of at most MaxLines lines.
Inputs == UNION {[1..k -> Lines] : k \in 0..MaxLines}

\* ------------------------------------------------------------------ state
VARIABLES
    pc,       \* where main is: "idle", "loop", "done", "fatal_setup", "fatal_parse"
    cfg,      \* the merged configuration
    input,    \* the image-location file
    pos,      \* number of its lines image_locations has consumed
    files,    \* the file system: path -> content
    log,      \* the success log (cfg.log_file)
    console,  \* the messages logged so far
    last      \* the latest call of get_image_and_resize and how it ended

vars == <<pc, cfg, input, pos, files, log, console, last>>

Header == [kind |-> "header", name |-> <<>>, url |-> <<>>]

LogLine(name, url) == [kind |-> "line", name |-> name, url |-> url]

NoCall == [name |-> <<>>, url |-> <<>>, width |-> 0, height |-> 0,
           resize_dir |-> "", fetch |-> "none", img |-> Corrupt, ret |-> "none"]

EmptyFs == [p \in {} |-> Corrupt]

Init ==
    /\ pc = "idle"
    /\ cfg = [width |-> DefaultWidth, height |-> DefaultHeight,
              resize_dir |-> ResizedDir]
    /\ input = <<>>
    /\ pos = 0
    /\ files = EmptyFs
    /\ log = <<>>
    /\ console = <<>>
    /\ last = NoCall

\* The for statement of line 200: main leaves the loop, and returns, when
\* image_locations has consumed the whole file.
LoopPc(inp, p) == IF p = Len(inp) THEN "done" ELSE "loop"

\* main, lines 178-199: parse the arguments, merge the configuration,
\* create the directories, open the success log and write the header.
Start ==
    /\ pc = "idle"
    /\ \E args \in ArgsSet, file \in CfgFiles, inp \in Inputs :
          /\ cfg' = [width |-> MergeWidth(args, LoadConfig(file)),
                     height |-> MergeHeight(args, LoadConfig(file)),
                     resize_dir |-> args.resize_dir]
          /\ input' = inp
          /\ pc' = LoopPc(inp, 0)
    /\ log' = Append(log, Header)
    /\ UNCHANGED <<pos, files, console, last>>

\* main, lines 190-198: os.makedirs or open(cfg.log_file) raises; the
\* process ends before the header is written.
StartFail ==
    /\ pc = "idle"
    /\ \E args \in ArgsSet, file \in CfgFiles :
          cfg' = [width |-> MergeWidth(args, LoadConfig(file)),
                  height |-> MergeHeight(args, LoadConfig(file)),
                  resize_dir |-> args.resize_dir]
    /\ pc' = "fatal_setup"
    /\ UNCHANGED <<input, pos, files, log, console, last>>

\* image_locations, line 123: a blank or comment-only line is skipped.
SkipLine ==
    /\ pc = "loop"
    /\ pos < Len(input)
    /\ Fields(input[pos + 1]) = <<>>
    /\ pos' = pos + 1
    /\ pc' = LoopPc(input, pos + 1)
    /\ UNCHANGED <<cfg, input, files, log, console, last>>

\* Faulty variant of Malformed: the line is handled like a failed Location.
Malformed_Swallowed ==
    /\ pc = "loop"
    /\ pos < Len(input)
    /\ Len(Fields(input[pos + 1])) = 1
    /\ pos' = pos + 1
    /\ pc' = LoopPc(input, pos + 1)
    /\ console' = Append(console, Msg("exception"))
    /\ UNCHANGED <<cfg, input, files, log, last>>

\* Line 200: the list image_locations yields has one element, so
\* `for name, url in ...` raises outside the try block and main ends.
Malformed ==
    /\ pc = "loop"
    /\ pos < Len(input)
    /\ Len(Fields(input[pos + 1])) = 1
    /\ pos' = pos + 1
    /\ pc' = "fatal_parse"
    /\ UNCHANGED <<cfg, input, files, log, console, last>>

\* The success-log write of line 205, reached when the call returned.
LogAfter(lg, name, url, ret) ==
    IF ret = "returned" THEN Append(lg, LogLine(name, url)) ELSE lg

\* Lines 206-207: the exception is logged and the loop goes on.
ExceptMsgs(ret) == IF ret = "raised" THEN <<Msg("exception")>> ELSE <<>>

\* Faulty variant of AfterLocation: an exception of the call ends main.
AfterLocation_RaiseEndsMain(ret, inp, p) ==
    IF ret = "raised" THEN "fatal_parse" ELSE LoopPc(inp, p)

\* Where main is after the body of the loop ran for one Location, p lines
\* being consumed: back at the for statement, however the call ended.
AfterLocation(ret, inp, p) == LoopPc(inp, p)

\* Lines 200-207: one iteration of the loop for a well-formed line.
ProcessLocation ==
    /\ pc = "loop"
    /\ pos < Len(input)
    /\ Len(Fields(input[pos + 1])) = 2
    /\ \E e \in {x \in Envs : x.fetch \in FetchOutcomes(Fields(input[pos + 1])[2])} :
          LET name == Fields(input[pos + 1])[1]
              url == Fields(input[pos + 1])[2]
              r == GetImageAndResize(files, name, url, cfg.width, cfg.height,
                                     cfg.resize_dir, e)
          IN  /\ files' = r.fs
              /\ console' = console \o <<Info(name, url)>> \o r.msgs
                               \o ExceptMsgs(r.ret)
              /\ log' = LogAfter(log, name, url, r.ret)
              /\ last' = [name |-> name, url |-> url,
                          width |-> cfg.width, height |-> cfg.height,
                          resize_dir |-> cfg.resize_dir,
                          fetch |-> e.fetch,
                          img |-> IF e.fetch \in {"local", "http_ok"}
                                  THEN e.img ELSE Corrupt,
                          ret |-> r.ret]
              /\ pc' = AfterLocation(r.ret, input, pos + 1)
    /\ pos' = pos + 1
    /\ UNCHANGED <<cfg, input>>

Next ==
    \/ Start
    \/ StartFail
    \/ SkipLine
    \/ Malformed
    \/ ProcessLocation

Spec == Init /\ [][Next]_vars

\* ------------------------------------------------- reading the state
IsInfo(m) == m.kind = "info"

\* The Locations attempted so far, in order: the info lines of line 201.
Attempted == [i \in 1..Len(SelectSeq(console, IsInfo)) |->
                 <<SelectSeq(console, IsInfo)[i].name,
                   SelectSeq(console, IsInfo)[i].url>>]

\* The Locations on the well-formed lines of a sequence of lines, in order.
RECURSIVE Locs(_)
Locs(lines) ==
    IF lines = <<>> THEN <<>>
    ELSE (IF Len(Fields(Head(lines))) = 2
          THEN <<<<Fields(Head(lines))[1], Fields(Head(lines))[2]>>>>
          ELSE <<>>) \o Locs(Tail(lines))

\* No line of the file is malformed.
WellFormedInput == \A i \in 1..Len(input) : Len(Fields(input[i])) # 1

\* The messages logged for the Location whose info line is console[i].
SegmentEnd(i) ==
    IF \E j \in (i + 1)..Len(console) : IsInfo(console[j])
    THEN (CHOOSE j \in (i + 1)..Len(console) :
             /\ IsInfo(console[j])
             /\ \A k \in (i + 1)..(j - 1) : ~IsInfo(console[k])) - 1
    ELSE Len(console)

SegmentKinds(i) == {console[j].kind : j \in i..SegmentEnd(i)}

\* The pipeline of the Location at console[i] did not complete: its fetch
\* got a non-success status (line 64) or a step raised (line 207).
Failed(i) == SegmentKinds(i) \cap {"could_not_get", "exception"} # {}

\* Index of the info line of the latest Location.
LastInfo == CHOOSE i \in 1..Len(console) :
               IsInfo(console[i]) /\ \A j \in (i + 1)..Len(console) : ~IsInfo(console[j])

\* The latest call fetched an image the codec can decode.
Fetched == last.fetch \in {"local", "http_ok"} /\ last.img.kind = "raw"

LastOrig == OrigPath(last.name, last.url)

LastResized == ResizedPath(last.name, last.url)

\* The messages a step adds to the console.
NewKinds == {console'[j].kind : j \in (Len(console) + 1)..Len(console')}

\* ------------------------------------------------------------------- C1
\* The name = url lines the success log should hold: one for each attempted
\* Location whose pipeline completed, in order.
RECURSIVE ExpectedLines(_)
ExpectedLines(i) ==
    IF i > Len(console) THEN <<>>
    ELSE (IF IsInfo(console[i]) /\ ~Failed(i)
          THEN <<LogLine(console[i].name, console[i].url)>>
          ELSE <<>>) \o ExpectedLines(i + 1)

\* C1: once the run has started, the success log holds exactly one header
\* followed by one name = url line for exactly the Locations whose whole
\* pipeline completed without error, in input order; a Location whose fetch
\* got a non-success HTTP status contributes no line.
C1_LogHoldsExactlyTheCompleted ==
    pc \in {"loop", "done", "fatal_parse"} => log = <<Header>> \o ExpectedLines(1)

\* ------------------------------------------------------------------- C2
\* On a file of well-formed lines main is in its loop or done, and has
\* attempted the Locations of the lines consumed.
C2_AttemptedInOrder ==
    (pc \notin {"idle", "fatal_setup"} /\ WellFormedInput) =>
        /\ pc \in {"loop", "done"}
        /\ Attempted = Locs(SubSeq(input, 1, pos))
        /\ (pc = "done") <=> (pos = Len(input))

\* A step of the loop consumes one line and attempts at most one Location.
C2_LoopStep ==
    (pc = "loop" /\ WellFormedInput) =>
        /\ pos' = pos + 1
        /\ pc' \in {"loop", "done"}
        /\ Len(Attempted') <= Len(Attempted) + 1

\* C2: on a file of well-formed lines, whichever Locations fail and at
\* whichever step, main never aborts; the Locations attempted are exactly
\* those of the lines consumed, once each and in input order; main is in
\* its loop only while a line is left, every step of the loop consumes one
\* line, and main is done exactly when every line is consumed.
C2_FailuresDoNotStopTheRun ==
    /\ []C2_AttemptedInOrder
    /\ [][C2_LoopStep]_vars

\* A finished run of two Locations whose first one failed.
C2_Witness ==
    /\ pc = "done"
    /\ WellFormedInput
    /\ Len(Attempted) = 2
    /\ Failed(1)

\* ------------------------------------------------------------------- C3
\* C3: when the call returned and the fetched image fits (width <= max
\* width and height <= max height), the resized path holds exactly the
\* fetched bytes and no file is at the orig- path.
C3_SmallImageIsRenamed ==
    (/\ last.ret = "returned"
     /\ Fetched
     /\ last.img.w <= last.width
     /\ last.img.h <= last.height) =>
        /\ Exists(files, LastResized)
        /\ files[LastResized] = last.img
        /\ ~Exists(files, LastOrig)

\* A fitting image, equal to the maxima, replaced a stale original and a
\* stale resized file.
C3_Witness ==
    /\ last.ret = "returned"
    /\ Fetched
    /\ last.img.w = last.width
    /\ last.img.h = last.height
    /\ {"clobber_orig", "removing_resized"} \subseteq SegmentKinds(LastInfo)

\* ------------------------------------------------------------------- C4
\* C4: when the call returned and the fetched image exceeds the max width
\* or the max height, the resized path holds an image within both maxima
\* and the orig- path holds exactly the fetched bytes.
C4_BigImageIsShrunk ==
    (/\ last.ret = "returned"
     /\ Fetched
     /\ ~(last.img.w <= last.width /\ last.img.h <= last.height)) =>
        /\ Exists(files, LastResized)
        /\ files[LastResized].kind = "thumb"
        /\ files[LastResized].w >= 1
        /\ files[LastResized].h >= 1
        /\ files[LastResized].w <= last.width
        /\ files[LastResized].h <= last.height
        /\ Exists(files, LastOrig)
        /\ files[LastOrig] = last.img

\* An image too high only was shrunk over a stale original.
C4_Witness ==
    /\ last.ret = "returned"
    /\ Fetched
    /\ last.img.w <= last.width
    /\ last.img.h > last.height
    /\ "clobber_orig" \in SegmentKinds(LastInfo)

\* ------------------------------------------------------------------- C5
\* C5: a call whose GET returns a non-success status leaves every file as
\* it was, and neither the resize nor the distribute step runs.
C5_BadStatusWritesNothing ==
    [][(console' # console /\ last'.fetch = "http_bad") =>
          /\ files' = files
          /\ NewKinds \cap {"resizing", "removing_resized", "renaming", "copied"}
                = {}]_vars

\* A non-success status met an original, a resized file and a copy of them.
C5_Witness ==
    /\ last.fetch = "http_bad"
    /\ Exists(files, LastOrig)
    /\ Exists(files, LastResized)
    /\ Exists(files, CopyPath(last.name, last.url, ResizedDir))

\* ------------------------------------------------------------------- C6
\* C6: whenever processing a Location replaces a file that was at its
\* orig- path or at its resized path, a clobber notice is logged during
\* that processing.
C6_ReplacingIsNoticed ==
    [][\A p \in {OrigPath(last'.name, last'.url),
                 ResizedPath(last'.name, last'.url)} :
          (/\ console' # console
           /\ Exists(files, p)
           /\ Exists(files', p)
           /\ files'[p] # files[p]) =>
              NewKinds \cap {"clobber_orig", "removing_resized"} # {}]_vars

\* ------------------------------------------------------------------- C7
\* C7: after the configuration merge, width and height are positive.
C7_MergedSizesArePositive ==
    pc # "idle" => (cfg.width > 0 /\ cfg.height > 0)

\* ------------------------------------------------------------------- C8
\* The step that consumes a non-blank line without "=".
C8_AbortStep ==
    (/\ pc = "loop"
     /\ pos < Len(input)
     /\ Len(Fields(input[pos + 1])) = 1) =>
        /\ pc' = "fatal_parse"
        /\ UNCHANGED <<files, log, console, last>>

\* The state main aborted in.
C8_Aborted ==
    pc = "fatal_parse" =>
        /\ Len(Fields(input[pos])) = 1
        /\ Attempted = Locs(SubSeq(input, 1, pos - 1))
        /\ \A i \in 1..Len(console) :
              (IsInfo(console[i]) /\ ~Failed(i)) =>
                  \E k \in 1..Len(log) :
                      log[k] = LogLine(console[i].name, console[i].url)
        /\ Len(log) <= 1 + Len(Attempted)

\* C8: a non-blank line without "=" ends main where it is reached: the
\* step that consumes it runs no pipeline and writes no log line; by then
\* the Locations of the earlier lines have all been attempted, the
\* completed ones logged; and main takes no further step.
C8_MalformedLineAbortsTheRun ==
    /\ []C8_Aborted
    /\ [][C8_AbortStep /\ pc # "fatal_parse"]_vars

\* main aborted on the second line after the first line's Location was
\* processed and logged.
C8_Witness ==
    /\ pc = "fatal_parse"
    /\ pos = 2
    /\ Len(Attempted) = 1
    /\ ~Failed(1)
    /\ Len(log) = 2

\* ------------------------------------------------------------------- C9
\* Every processing so far ended in success, in a fetch failure or in a
\* decode failure: no exception followed a resize or a rename.
OnlyFetchOrDecodeFailures ==
    \A j \in 2..Len(console) :
        console[j].kind = "exception" =>
            console[j - 1].kind \notin {"resizing", "renaming"}

\* All Locations processed so far have one name and one extension.
OneNameProcessed ==
    \A i, j \in 1..Len(Attempted) :
        /\ Attempted[i][1] = Attempted[j][1]
        /\ UrlExt(Attempted[i][2]) = UrlExt(Attempted[j][2])

\* C9: after processing one name and extension any number of times, each
\* time ending in success, a fetch failure or a decode failure, whenever
\* the orig- file and the resized file both exist the resized file is the
\* thumbnail of the content of the orig- file.
C9_PairStaysConsistent ==
    (/\ console # <<>>
     /\ OneNameProcessed
     /\ OnlyFetchOrDecodeFailures
     /\ Exists(files, LastOrig)
     /\ Exists(files, LastResized)) =>
        /\ files[LastOrig].kind = "raw"
        /\ files[LastResized].kind = "thumb"
        /\ files[LastResized].sw = files[LastOrig].w
        /\ files[LastResized].sh = files[LastOrig].h

\* ------------------------------------------------------------------ C10
\* The Locations of the model's lines.
AllLocations == {Locs(<<ln>>)[1] : ln \in {l \in Lines : Len(Fields(l)) = 2}}

\* C10: processing a Location leaves the orig- file and the resized file
\* of every Location of another name, processed before it, as they were.
C10_OtherNamesUntouched ==
    [][console' # console =>
          \A loc \in AllLocations :
              (loc[1] # last'.name /\ \E i \in 1..Len(Attempted) : Attempted[i] = loc) =>
                  \A p \in {OrigPath(loc[1], loc[2]), ResizedPath(loc[1], loc[2])} :
                      Exists(files, p) =>
                          (Exists(files', p) /\ files'[p] = files[p])]_vars

====
